---- MODULE Spec2Model ----
(***************************************************************************)
(* Line-following controller of Pybricks_LineTrace.                        *)
(*                                                                         *)
(* Two programs of the repository are modelled as one state machine, the   *)
(* variable prog saying which one runs:                                    *)
(*   "Perfect"  Perfect_Program.py  (class LineTracer, main, __main__)      *)
(*   "Level4"   Level4_Program.py   (module-level PID + search)             *)
(*                                                                         *)
(* A run is main()'s plain path: calibrate, then follow_line (Level4: the   *)
(* module body).  The menu, test_sensors and advanced_settings are left    *)
(* out, so kp and base_speed keep their __init__ values.  The button is    *)
(* an input drawn at each poll.                                            *)
(*                                                                         *)
(* Numbers.  The programs compute in floating point; the model computes    *)
(* the same expressions exactly, in fixed point:                           *)
(*   reflectances, thresholds, errors, integral : multiples of 1/U         *)
(*   gray_zone                                  : multiples of 1/(10 U)    *)
(*   turn rates                                 : multiples of 1/(50 U)    *)
(*   speeds                                     : multiples of 1/(1250 U)  *)
(* A target is a half-integer and every halving of the integral needs one  *)
(* more binary digit.  A run makes at most MaxUpdates regulator updates    *)
(* (the only cut the model makes), so at most MaxUpdates - history_size + 1 *)
(* halvings, and U = 2 * 2^(that many) makes every value exact.             *)
(***************************************************************************)
EXTENDS Integers, Sequences, FiniteSets, TLC

VARIABLES
    prog,             \* which program runs
    kp, ki, kd,       \* x 50: the gains (self.kp, self.ki, self.kd / KP, KI, KD)
    course,           \* the reflectances the sensor can return in this run
    pc,               \* "cal_white" | "cal_black" | "loop" | "search" | "done"
    current_value,    \* calibrate: reading shown while waiting for the button
    white_value,      \* calibrate: confirmed white sample (NoSample before)
    black_value,      \* calibrate: confirmed black sample (NoSample before)
    black_threshold,  \* x U
    white_threshold,  \* x U
    target_value,     \* x U
    gray_zone,        \* x 10 U
    is_calibrated,
    integral,         \* x U
    last_error,       \* x U
    error_history,    \* sequence of errors, x U (Perfect only)
    line_position,    \* -1 left, 0 center, 1 right (Perfect only)
    lost_line_count,
    sensor_value,     \* the reading taken at the start of the current tick
    search_pattern,   \* the sweep of the search in progress
    search_idx,       \* next offset of search_pattern to turn
    tick_cmds,        \* actuator commands issued in the current (latest) tick
    last_cmd,         \* the last actuator command issued in the run
    pid_called,       \* the latest tick invoked the regulator
    turn_rate,        \* x 50 U: the value the latest regulator update returned
    updates,          \* regulator updates made so far in the run
    tick_reads,       \* sensor reads made in the current (latest) tick
    lost_streak,      \* ticks in a row, up to the latest, that read above
                      \* white_threshold + 5 (restarted when a search succeeds)
    on_target,        \* every tick so far read exactly target_value
    error_log,        \* every error calculate_pid recorded, oldest first
                      \* (Perfect only)
    reflection,       \* search_line: the sample of the latest pivot of the
                      \* current tick (NoSample when the tick made none)
    search_position,  \* the line_position search_line stored in the current
                      \* tick (0 when it stored none)
    held,             \* the white sample is confirmed and every button poll
                      \* since then found the button pressed
    exit_reason       \* "none" | "button" | "lost" | "fault"

vars == <<prog, kp, ki, kd, course, pc, current_value, white_value, black_value, black_threshold,
          white_threshold, target_value, gray_zone, is_calibrated, integral,
          last_error, error_history, line_position, lost_line_count,
          sensor_value, search_pattern, search_idx, tick_cmds, last_cmd,
          pid_called, turn_rate, updates, tick_reads, lost_streak, on_target,
          error_log, reflection, search_position, held, exit_reason>>

(***************************************************************************)
(* Bounds of the model.                                                    *)
(***************************************************************************)
\* regulator updates in one run
MaxUpdates == 12

\* Reflectances the sensor returns in a run (percent).
Readings == {10, 47, 57, 85}

Programs == {"Perfect", "Level4"}

NoSample == -1

(***************************************************************************)
(* Program constants.                                                      *)
(***************************************************************************)
margin == 5
curveMargin == 10
L4_curveMargin == 5
lostMargin == 5
lostLineThreshold == 5
integral_limit == 100
max_turn_rate == 250
base_speed == 150
history_size == 10
\* gains in fiftieths: kp = 2.0, ki = 0.02, kd = 0.8
kp50 == 100
ki50 == 1
kd50 == 40
L4_sharp_turn == 200
L4_min_speed == 50

RECURSIVE Pow2(_)
Pow2(n) == IF n = 0 THEN 1 ELSE 2 * Pow2(n - 1)

U == 2 * Pow2(IF MaxUpdates >= history_size THEN MaxUpdates - history_size + 1 ELSE 0)
S(x) == x * U

Abs(x) == IF x < 0 THEN -x ELSE x

TurnScale == 50 * U
SpeedScale == 1250 * U

(***************************************************************************)
(* Actuator commands.                                                      *)
(***************************************************************************)
NoCmd == [op |-> "none", a |-> 0, b |-> 0]
Drive(speed, turn) == [op |-> "drive", a |-> speed, b |-> turn]
Turn(angle) == [op |-> "turn", a |-> angle, b |-> 0]
Stop == [op |-> "stop", a |-> 0, b |-> 0]

(***************************************************************************)
(* Calibrator.                                                             *)
(***************************************************************************)
\* target taken as the sum of the thresholds, the halving forgotten
Thresholds_nohalf(black, white) ==
    LET bt == S(black + margin)
        wt == S(white - margin)
    IN  [black_threshold |-> bt,
         white_threshold |-> wt,
         target_value    |-> bt + wt,
         gray_zone       |-> (wt - bt) * 3]

Thresholds(black, white) ==
    LET bt == S(black + margin)
        wt == S(white - margin)
    IN  [black_threshold |-> bt,
         white_threshold |-> wt,
         target_value    |-> (bt + wt) \div 2,
         gray_zone       |-> (wt - bt) * 3]

L4_Thresholds(black, white) ==
    [black_threshold |-> S(black + margin),
     white_threshold |-> S(white - margin),
     target_value    |-> S(white + black) \div 2,
     gray_zone       |-> 0]

(***************************************************************************)
(* PID regulator.                                                          *)
(***************************************************************************)
\* anti-windup left out
ClampIntegral_none(x) == x

ClampIntegral(x) ==
    IF x > S(integral_limit) THEN S(integral_limit)
    ELSE IF x < -S(integral_limit) THEN -S(integral_limit)
    ELSE x

\* only the upper limit applied
ClampTurn_upper(t) ==
    IF t > max_turn_rate * TurnScale THEN max_turn_rate * TurnScale ELSE t

ClampTurn(t) ==
    IF t > max_turn_rate * TurnScale THEN max_turn_rate * TurnScale
    ELSE IF t < -(max_turn_rate * TurnScale) THEN -(max_turn_rate * TurnScale)
    ELSE t

RECURSIVE SignChanges(_, _)
SignChanges(h, i) ==
    IF i > Len(h) THEN 0
    ELSE (IF h[i] * h[i - 1] < 0 THEN 1 ELSE 0) + SignChanges(h, i + 1)

\* the detector firing at exactly 6 sign changes
detect_oscillation_ge(h) ==
    IF Len(h) < history_size THEN FALSE
    ELSE SignChanges(h, 2) * 10 >= history_size * 6

detect_oscillation(h) ==
    IF Len(h) < history_size THEN FALSE
    ELSE SignChanges(h, 2) * 10 > history_size * 6

\* on overflow the newest error dropped instead of the oldest
PushError_newest(h, e) ==
    LET h1 == Append(h, e)
    IN  IF Len(h1) > history_size THEN SubSeq(h1, 1, history_size) ELSE h1

PushError(h, e) ==
    LET h1 == Append(h, e)
    IN  IF Len(h1) > history_size THEN Tail(h1) ELSE h1

\* the error taken as the reading itself, the target not subtracted
calculate_pid_rawerror(s, integ, lerr, hist) ==
    LET error      == S(s)
        hist1      == PushError(hist, error)
        clamped    == ClampIntegral(integ + error)
        osc        == detect_oscillation(hist1)
        integ1     == IF osc THEN clamped \div 2 ELSE clamped
        derivative == error - lerr
        turn       == kp * error + ki * integ1 + kd * derivative
    IN  [integral      |-> integ1,
         last_error    |-> error,
         error_history |-> hist1,
         turn_rate     |-> ClampTurn(turn),
         error         |-> error,
         halved        |-> osc]

\* the derivative taken after last_error was overwritten
calculate_pid_latederiv(s, integ, lerr, hist) ==
    LET error      == S(s) - target_value
        hist1      == PushError(hist, error)
        clamped    == ClampIntegral(integ + error)
        osc        == detect_oscillation(hist1)
        integ1     == IF osc THEN clamped \div 2 ELSE clamped
        derivative == error - error
        turn       == kp * error + ki * integ1 + kd * derivative
    IN  [integral      |-> integ1,
         last_error    |-> error,
         error_history |-> hist1,
         turn_rate     |-> ClampTurn(turn),
         error         |-> error,
         halved        |-> osc]

\* calculate_pid(sensor_value) on the regulator state (integ, lerr, hist).
calculate_pid(s, integ, lerr, hist) ==
    LET error      == S(s) - target_value
        hist1      == PushError(hist, error)
        clamped    == ClampIntegral(integ + error)
        osc        == detect_oscillation(hist1)
        integ1     == IF osc THEN clamped \div 2 ELSE clamped
        derivative == error - lerr
        turn       == kp * error + ki * integ1 + kd * derivative
    IN  [integral      |-> integ1,
         last_error    |-> error,
         error_history |-> hist1,
         turn_rate     |-> ClampTurn(turn),
         error         |-> error,
         halved        |-> osc]

\* calculate_pid_control(sensor_value, target_value, kp, ki, kd) of Level4.
calculate_pid_control(s, integ, lerr) ==
    LET error      == S(s) - target_value
        integ1     == ClampIntegral(integ + error)
        derivative == error - lerr
        turn       == kp * error + ki * integ1 + kd * derivative
    IN  [integral      |-> integ1,
         last_error    |-> error,
         error_history |-> <<>>,
         turn_rate     |-> ClampTurn(turn),
         error         |-> error,
         halved        |-> FALSE]

\* adjust_speed(base_speed, error) of Level4, x SpeedScale.
adjust_speed(error) ==
    LET speed == base_speed * SpeedScale - Abs(error) * 1000
    IN  IF speed < L4_min_speed * SpeedScale THEN L4_min_speed * SpeedScale
        ELSE speed

(***************************************************************************)
(* Curve detector.                                                         *)
(***************************************************************************)
\* the curve margin left out of the black-side test
detect_sharp_curve_nomargin(s) ==
    IF S(s) < black_threshold THEN "sharp_left"
    ELSE IF S(s) > white_threshold - S(curveMargin) THEN "sharp_right"
    ELSE "none"

detect_sharp_curve(s) ==
    IF S(s) < black_threshold + S(curveMargin) THEN "sharp_left"
    ELSE IF S(s) > white_threshold - S(curveMargin) THEN "sharp_right"
    ELSE "none"

L4_detect_sharp_curve(s) ==
    IF S(s) < black_threshold + S(L4_curveMargin) THEN "sharp_left"
    ELSE IF S(s) > white_threshold - S(L4_curveMargin) THEN "sharp_right"
    ELSE "none"

\* base_speed * 0.5 and max_turn_rate * 0.8, scaled
HalfSpeed == (base_speed * SpeedScale) \div 2
SharpTurn == (max_turn_rate * TurnScale * 8) \div 10

\* current_speed = base_speed * (1 - (abs(turn_rate) / max_turn_rate) * 0.4)
\*               = base_speed - abs(turn_rate) * (0.4 * base_speed / max_turn_rate)
\* the factor 0.4 left out: speed_factor = 1 - abs(turn_rate) / max_turn_rate
PidSpeed_nofactor(turn) == base_speed * SpeedScale - 15 * Abs(turn)

PidSpeed(turn) == base_speed * SpeedScale - 6 * Abs(turn)

\* gray-zone update of line_position after a PID tick
GrayPosition(s) ==
    IF Abs(S(s) - target_value) * 10 < gray_zone THEN 0
    ELSE IF S(s) < target_value THEN -1
    ELSE 1

(***************************************************************************)
(* The second half of a tick (curve handling or PID, then the drive        *)
(* command), from reading s and integral integ.                            *)
(***************************************************************************)
Steer(s, integ) ==
    LET curve_type == detect_sharp_curve(s)
        r == calculate_pid(s, integ, last_error, error_history)
    IN  IF curve_type = "sharp_left"
        THEN [integral |-> integ, last_error |-> last_error,
              error_history |-> error_history, line_position |-> -1,
              cmd |-> Drive(HalfSpeed, -SharpTurn), pid |-> FALSE]
        ELSE IF curve_type = "sharp_right"
        THEN [integral |-> integ, last_error |-> last_error,
              error_history |-> error_history, line_position |-> 1,
              cmd |-> Drive(HalfSpeed, SharpTurn), pid |-> FALSE]
        ELSE [integral |-> r.integral, last_error |-> r.last_error,
              error_history |-> r.error_history,
              line_position |-> GrayPosition(s),
              cmd |-> Drive(PidSpeed(r.turn_rate), r.turn_rate),
              pid |-> TRUE]

L4_Steer(s, integ) ==
    LET curve_type == L4_detect_sharp_curve(s)
        r == calculate_pid_control(s, integ, last_error)
    IN  IF curve_type = "sharp_left"
        THEN [integral |-> 0, last_error |-> last_error,
              error_history |-> error_history, line_position |-> line_position,
              cmd |-> Drive(HalfSpeed, -(L4_sharp_turn * TurnScale)),
              pid |-> FALSE]
        ELSE IF curve_type = "sharp_right"
        THEN [integral |-> 0, last_error |-> last_error,
              error_history |-> error_history, line_position |-> line_position,
              cmd |-> Drive(HalfSpeed, L4_sharp_turn * TurnScale),
              pid |-> FALSE]
        ELSE [integral |-> r.integral, last_error |-> r.last_error,
              error_history |-> error_history, line_position |-> line_position,
              cmd |-> Drive(adjust_speed(r.error), r.turn_rate),
              pid |-> TRUE]

ProgSteer(s, integ) == IF prog = "Perfect" THEN Steer(s, integ) ELSE L4_Steer(s, integ)

(***************************************************************************)
(* Line search.                                                            *)
(***************************************************************************)
\* the two sweeps exchanged
SearchPattern_swapped(pos) ==
    IF pos < 0 THEN <<-30, 60, -90, 120, -150, 180>>
    ELSE <<30, -60, 90, -120, 150, -180>>

SearchPattern(pos) ==
    IF pos < 0 THEN <<30, -60, 90, -120, 150, -180>>
    ELSE <<-30, 60, -90, 120, -150, 180>>

L4_search_angles == <<30, -60, 90, -120, 150>>

ProgPattern == IF prog = "Perfect" THEN SearchPattern(line_position) ELSE L4_search_angles

\* the reading counts as "line lost"
IsLost(s) == S(s) > white_threshold + S(lostMargin)

\* search one lost tick late
LossExceeded_late(count) == count > lostLineThreshold + 1

\* search on the first lost tick, before any lost tick has steered
LossExceeded_first(count) == count >= 1

\* search already when the counter reaches the threshold
LossExceeded_ge(count) == count >= lostLineThreshold

\* the loss counter has passed the threshold: search
LossExceeded(count) == count > lostLineThreshold

\* the sweep cut one offset short
MoreOffsets_short(idx) == idx + 1 < Len(search_pattern)

\* the for loop of search_line has offsets left after offset idx
MoreOffsets(idx) == idx < Len(search_pattern)

\* a sample equal to the target taken as a reacquisition
Found_le(r) == S(r) <= target_value

\* a post-turn sample that reacquires the line
Found(r) == S(r) < target_value

(***************************************************************************)
(* Initial state: LineTracer.__init__ / the module globals of Level4.      *)
(***************************************************************************)
InitCourse(c) ==
    /\ prog \in Programs
    /\ course = c
    /\ kp = kp50
    /\ ki = ki50
    /\ kd = kd50
    /\ pc = "cal_white"
    /\ current_value = NoSample
    /\ white_value = NoSample
    /\ black_value = NoSample
    /\ black_threshold = IF prog = "Perfect" THEN S(10) ELSE 0
    /\ white_threshold = IF prog = "Perfect" THEN S(85) ELSE 0
    /\ target_value = IF prog = "Perfect" THEN (S(10) + S(85)) \div 2 ELSE 0
    /\ gray_zone = 0
    /\ is_calibrated = FALSE
    /\ integral = 0
    /\ last_error = 0
    /\ error_history = <<>>
    /\ line_position = 0
    /\ lost_line_count = 0
    /\ sensor_value = NoSample
    /\ search_pattern = <<>>
    /\ search_idx = 0
    /\ tick_cmds = <<>>
    /\ last_cmd = NoCmd
    /\ pid_called = FALSE
    /\ turn_rate = 0
    /\ updates = 0
    /\ tick_reads = 0
    /\ lost_streak = 0
    /\ on_target = TRUE
    /\ error_log = <<>>
    /\ reflection = NoSample
    /\ search_position = 0
    /\ held = FALSE
    /\ exit_reason = "none"

Init == InitCourse(Readings)

fixed == <<prog, kp, ki, kd, course>>
regulator == <<integral, last_error, error_history, line_position>>
observed == <<pid_called, turn_rate, updates, error_log>>
ticking == <<tick_reads, lost_streak, on_target>>
sweep == <<reflection, search_position>>
profile == <<black_threshold, white_threshold, target_value, gray_zone, is_calibrated>>
samples == <<white_value, black_value>>
searching == <<search_pattern, search_idx>>
actuator == <<tick_cmds, last_cmd>>

(***************************************************************************)
(* calibrate                                                               *)
(***************************************************************************)
\* one turn of either polling loop: button found not pressed, show the
\* reading
CalibrateWait(r) ==
    /\ pc \in {"cal_white", "cal_black"}
    /\ current_value' = r
    /\ held' = FALSE
    /\ UNCHANGED <<fixed, pc, ticking, sweep, samples, profile, regulator, lost_line_count,
                   sensor_value, searching, actuator, observed, exit_reason>>

\* button pressed in the first loop: take the white sample
CalibrateWhite(r) ==
    /\ pc = "cal_white"
    /\ white_value' = r
    /\ held' = TRUE
    /\ pc' = "cal_black"
    /\ UNCHANGED <<fixed, ticking, sweep, current_value, black_value, profile, regulator,
                   lost_line_count, sensor_value, searching, actuator,
                   observed, exit_reason>>

\* button pressed in the second loop: take the black sample, set the
\* thresholds; the caller then enters the control loop
CalibrateBlack(r) ==
    /\ pc = "cal_black"
    /\ black_value' = r
    /\ LET p == IF prog = "Perfect" THEN Thresholds(r, white_value)
                ELSE L4_Thresholds(r, white_value)
       IN  /\ black_threshold' = p.black_threshold
           /\ white_threshold' = p.white_threshold
           /\ target_value' = p.target_value
           /\ gray_zone' = p.gray_zone
    /\ is_calibrated' = (prog = "Perfect")
    /\ lost_line_count' = 0
    /\ pc' = "loop"
    /\ current_value' = NoSample
    /\ UNCHANGED <<fixed, ticking, sweep, held, white_value, regulator, sensor_value,
                   searching, actuator, observed, exit_reason>>

(***************************************************************************)
(* follow_line / the main loop of Level4                                   *)
(***************************************************************************)
\* the loop left without the final robot.stop()
StopPressed_nostop ==
    /\ pc = "loop"
    /\ pc' = "done"
    /\ exit_reason' = "button"
    /\ tick_cmds' = <<>>
    /\ tick_reads' = 0
    /\ UNCHANGED <<fixed, lost_streak, on_target, sweep, held, current_value, samples, profile, regulator,
                   lost_line_count, sensor_value, searching, observed, last_cmd>>

\* the button polled after the sensor has been read and the loss counter
\* updated
StopPressed_late ==
    /\ pc = "loop"
    /\ pc' = "done"
    /\ exit_reason' = "button"
    /\ tick_cmds' = <<Stop>>
    /\ last_cmd' = Stop
    /\ tick_reads' = 1
    /\ \E s \in course :
          /\ sensor_value' = s
          /\ lost_line_count' = IF S(s) > white_threshold + S(lostMargin)
                                THEN lost_line_count + 1 ELSE 0
    /\ UNCHANGED <<fixed, lost_streak, on_target, sweep, held, current_value, samples, profile, regulator,
                   searching, observed>>

\* the stop button is pressed at the poll that opens the tick
StopPressed ==
    /\ pc = "loop"
    /\ pc' = "done"
    /\ exit_reason' = "button"
    /\ tick_cmds' = <<Stop>>
    /\ last_cmd' = Stop
    /\ tick_reads' = 0
    /\ UNCHANGED <<fixed, lost_streak, on_target, sweep, held, current_value, samples, profile, regulator,
                   lost_line_count, sensor_value, searching, observed>>

\* the drive half of a tick, shared by Tick and a successful search
Control(s, integ, cmds) ==
    LET r == ProgSteer(s, integ)
    IN  /\ r.pid => updates < MaxUpdates
        /\ updates' = IF r.pid THEN updates + 1 ELSE updates
        /\ integral' = r.integral
        /\ last_error' = r.last_error
        /\ error_history' = r.error_history
        /\ line_position' = r.line_position
        /\ pid_called' = r.pid
        /\ turn_rate' = IF r.pid THEN r.cmd.b ELSE turn_rate
        /\ error_log' = IF r.pid /\ prog = "Perfect"
                        THEN Append(error_log, r.last_error)
                        ELSE error_log
        /\ tick_cmds' = Append(cmds, r.cmd)
        /\ last_cmd' = r.cmd
        /\ pc' = "loop"

\* a tick that reads s (the button poll that opens it found the button not
\* pressed): loss counting, then search or steering
Tick(s) ==
    /\ pc = "loop"
    /\ sensor_value' = s
    /\ tick_reads' = 1
    /\ lost_streak' = IF S(s) > white_threshold + S(5) THEN lost_streak + 1 ELSE 0
    /\ on_target' = (on_target /\ S(s) = target_value)
    /\ held' = FALSE
    /\ reflection' = NoSample
    /\ search_position' = 0
    /\ IF IsLost(s) /\ LossExceeded(lost_line_count + 1)
       THEN /\ pc' = "search"
            /\ lost_line_count' = lost_line_count + 1
            /\ search_pattern' = ProgPattern
            /\ search_idx' = 1
            /\ tick_cmds' = <<>>
            /\ pid_called' = FALSE
            /\ UNCHANGED <<regulator, last_cmd, turn_rate, updates, error_log>>
       ELSE /\ lost_line_count' = IF IsLost(s) THEN lost_line_count + 1 ELSE 0
            /\ Control(s, integral, <<>>)
            /\ UNCHANGED searching
    /\ UNCHANGED <<fixed, current_value, samples, profile, exit_reason>>

\* one pivot-turn-then-sample step of search_line, the sample being r
SearchStep(r) ==
    /\ pc = "search"
    /\ tick_reads' = tick_reads + 1
    /\ reflection' = r
    /\ UNCHANGED on_target
    /\ LET angle == search_pattern[search_idx]
           cmds  == Append(tick_cmds, Turn(angle))
       IN  IF Found(r)
           THEN \* return True; lost_line_count = 0; the tick goes on with
                \* the reading taken before the search.  The line_position
                \* search_line sets (-1 if angle > 0 else 1) is overwritten
                \* by the steering of this same tick.
                /\ lost_line_count' = 0
                /\ lost_streak' = 0
                /\ search_position' = IF prog = "Perfect"
                                      THEN (IF angle > 0 THEN -1 ELSE 1)
                                      ELSE search_position
                /\ Control(sensor_value, IF prog = "Perfect" THEN integral ELSE 0, cmds)
                /\ UNCHANGED <<searching, exit_reason>>
           ELSE IF MoreOffsets(search_idx)
           THEN /\ search_idx' = search_idx + 1
                /\ UNCHANGED <<lost_streak, search_position>>
                /\ tick_cmds' = cmds
                /\ last_cmd' = Turn(angle)
                /\ UNCHANGED <<pc, regulator, lost_line_count, search_pattern,
                               observed, exit_reason>>
           ELSE \* sweep exhausted: return False, break, robot.stop()
                /\ tick_cmds' = IF prog = "Perfect" THEN cmds \o <<Stop, Stop>>
                                ELSE cmds \o <<Stop>>
                /\ last_cmd' = Stop
                /\ pc' = "done"
                /\ exit_reason' = "lost"
                /\ UNCHANGED <<lost_streak, search_position>>
                /\ UNCHANGED <<regulator, lost_line_count, searching, observed>>
    /\ UNCHANGED <<fixed, held, current_value, samples, profile, sensor_value>>

(***************************************************************************)
(* A collaborator call raises.  Perfect runs main() under try/except       *)
(* Exception, whose handler stops the robot; Level4 has no handler.        *)
(***************************************************************************)
CollaboratorRaises ==
    /\ pc \in {"cal_white", "cal_black", "loop", "search"}
    /\ pc' = "done"
    /\ exit_reason' = "fault"
    /\ UNCHANGED <<ticking, sweep, held>>
    /\ IF prog = "Perfect"
       THEN /\ tick_cmds' = Append(tick_cmds, Stop)
            /\ last_cmd' = Stop
       ELSE UNCHANGED actuator
    /\ UNCHANGED <<fixed, current_value, samples, profile, regulator,
                   lost_line_count, sensor_value, searching, observed>>

Next ==
    \/ \E r \in course : CalibrateWait(r)
    \/ \E r \in course : CalibrateWhite(r)
    \/ \E r \in course : CalibrateBlack(r)
    \/ StopPressed
    \/ \E s \in course : Tick(s)
    \/ \E r \in course : SearchStep(r)
    \/ CollaboratorRaises

Spec == Init /\ [][Next]_vars

(***************************************************************************)
(* The regulator on its own: one update applied to any regulator state     *)
(* (integral within its limit, last_error the error of some reading, empty *)
(* history), any reading and two settings of the gains, for both          *)
(* programs.  SpecRegulator is the program together with this harness.     *)
(***************************************************************************)
MaxUnitUpdates == 2

UnitReadings == {0, 50, 80, 100}
UnitTargets == {S(15), S(50), S(85)}
\* the gains of the programs, and a purely proportional regulator
UnitGains == {<<kp50, ki50, kd50>>, <<kp50, 0, 0>>}

InitRegulator ==
    /\ prog \in Programs
    /\ \E g \in UnitGains : kp = g[1] /\ ki = g[2] /\ kd = g[3]
    /\ course = UnitReadings
    /\ pc = "unit"
    /\ target_value \in UnitTargets
    /\ integral \in {-S(integral_limit), 0, S(integral_limit)}
    /\ last_error \in {0} \cup {S(r) - target_value : r \in {0, 100}}
    /\ current_value = NoSample
    /\ white_value = NoSample
    /\ black_value = NoSample
    /\ black_threshold = 0
    /\ white_threshold = 0
    /\ gray_zone = 0
    /\ is_calibrated = FALSE
    /\ error_history = <<>>
    /\ line_position = 0
    /\ lost_line_count = 0
    /\ sensor_value = NoSample
    /\ search_pattern = <<>>
    /\ search_idx = 0
    /\ tick_cmds = <<>>
    /\ last_cmd = NoCmd
    /\ pid_called = FALSE
    /\ turn_rate = 0
    /\ updates = 0
    /\ tick_reads = 0
    /\ lost_streak = 0
    /\ on_target = TRUE
    /\ error_log = <<>>
    /\ reflection = NoSample
    /\ search_position = 0
    /\ held = FALSE
    /\ exit_reason = "none"

UnitUpdate(s) ==
    /\ pc = "unit"
    /\ updates < MaxUnitUpdates
    /\ LET r == IF prog = "Perfect"
                THEN calculate_pid(s, integral, last_error, error_history)
                ELSE calculate_pid_control(s, integral, last_error)
       IN  /\ integral' = r.integral
           /\ last_error' = r.last_error
           /\ error_history' = r.error_history
           /\ turn_rate' = r.turn_rate
           /\ error_log' = IF prog = "Perfect"
                           THEN Append(error_log, r.error)
                           ELSE error_log
    /\ sensor_value' = s
    /\ pid_called' = TRUE
    /\ updates' = updates + 1
    /\ UNCHANGED <<fixed, pc, held, current_value, samples, profile, line_position,
                   lost_line_count, searching, actuator, ticking, sweep,
                   exit_reason>>

NextRegulator ==
    \/ Next
    \/ \E s \in course : UnitUpdate(s)

(***************************************************************************)
(* The program on a course that offers the reflectances 10, 50 and 90:     *)
(* calibrated on 10 and 90 the target is 50, and a reading of 50 is on it. *)
(***************************************************************************)
SteadyReadings == {10, 50, 90}

InitSteady == InitCourse(SteadyReadings)

SpecSteady == InitSteady /\ [][Next]_vars

(***************************************************************************)
(* The program on a course whose reflectances lie close together: samples  *)
(* 13 to 29 apart, with brighter readings above the white sample.          *)
(***************************************************************************)
NarrowReadings == {30, 45, 58, 59}

InitNarrow == InitCourse(NarrowReadings)

SpecNarrow == InitNarrow /\ [][Next]_vars

SpecRegulator == (Init \/ InitRegulator) /\ [][NextRegulator]_vars

(***************************************************************************)
(* Properties.                                                             *)
(***************************************************************************)
Calibrated == black_value # NoSample

IntegralClamp ==
    /\ integral <= S(integral_limit)
    /\ integral >= -S(integral_limit)

\* a regulator update whose sum passed the limit and was cut back to it
IntegralClamp_Witness ==
    /\ pc = "loop"
    /\ pid_called
    /\ integral = S(integral_limit)
    /\ updates > history_size

\* C3: every value a regulator update returns, and the turn rate of every
\* drive command, lies within [-maxTurnRate, +maxTurnRate].
TurnRateClamp ==
    /\ pid_called => Abs(turn_rate) <= max_turn_rate * TurnScale
    /\ last_cmd.op = "drive" => Abs(last_cmd.b) <= max_turn_rate * TurnScale

\* an update whose raw output is below -maxTurnRate and is returned as
\* -maxTurnRate: error -85 after error +15 with the integral at its lower
\* limit gives 2.0 * -85 + 0.02 * -100 + 0.8 * -100 = -252
TurnRateClamp_Witness ==
    /\ pc = "unit"
    /\ pid_called
    /\ turn_rate = -(max_turn_rate * TurnScale)
    /\ last_error = -S(85)
    /\ integral = -S(integral_limit)

\* C9 as stated: the controller never follows the line with a profile
\* taken from samples with blackSample >= whiteSample.
CalibrationGuard ==
    pc \in {"loop", "search"} => black_value < white_value

\* a step that completes a tick with a drive command
TickDone == pc \in {"loop", "search"} /\ pc' = "loop"

\* the tick left the regulator alone and issued the fixed sharp-left command
SharpLeftTick ==
    /\ last_error' = last_error
    /\ error_history' = error_history
    /\ ~pid_called'
    /\ last_cmd' = Drive(HalfSpeed, -SharpTurn)

SharpRightTick ==
    /\ last_error' = last_error
    /\ error_history' = error_history
    /\ ~pid_called'
    /\ last_cmd' = Drive(HalfSpeed, SharpTurn)

\* C4 as stated, for runs calibrated with blackSample < whiteSample: a tick
\* whose reading is below blackThreshold + 10 is a sharp-left tick
\* (regulator untouched, fixed sharp-left command), and a tick whose
\* reading is above whiteThreshold - 10 is a sharp-right tick.
CurvePrecedence_Margin10 ==
    [][(TickDone /\ black_value < white_value) =>
        /\ (S(sensor_value') < black_threshold + S(curveMargin) => SharpLeftTick)
        /\ (S(sensor_value') > white_threshold - S(curveMargin) => SharpRightTick)
      ]_vars

\* C4 amended: with curveMargin the margin of the program that runs (10 in
\* Perfect_Program, 5 in Level4_Program), a tick whose reading is below
\* blackThreshold + curveMargin is a sharp-left tick, and a tick whose
\* reading is above whiteThreshold - curveMargin and not below
\* blackThreshold + curveMargin is a sharp-right tick; in both the regulator
\* is not invoked (lastError and errorHistory unchanged) and the drive
\* command is the fixed sharp-turn command.
CurvePrecedence ==
    [][TickDone =>
        LET m     == IF prog = "Perfect" THEN curveMargin ELSE L4_curveMargin
            left  == S(sensor_value') < black_threshold + S(m)
            right == S(sensor_value') > white_threshold - S(m)
        IN  /\ (left => SharpLeftTick)
            /\ (right /\ ~left => SharpRightTick)
      ]_vars

\* a sharp-left tick taken after the regulator has built up state
CurvePrecedence_Witness ==
    /\ prog = "Perfect"
    /\ pc = "loop"
    /\ S(sensor_value) < black_threshold + S(curveMargin)
    /\ last_cmd = Drive(HalfSpeed, -SharpTurn)
    /\ ~pid_called
    /\ updates > 0
    /\ integral # 0

\* the pivot turns of the first n offsets of the sweep, in order
Sweep(n) == [i \in 1..n |-> Turn(search_pattern[i])]

\* C5: a search in progress has made one pivot turn and one sample per
\* offset passed, in sweep order; a search that fails has made exactly K
\* turn-and-sample steps (K the sweep length, 6 in Perfect_Program), then
\* only stop commands, and the run has ended in that tick with the robot
\* stopped and no drive command.
SearchTermination ==
    /\ pc = "search" =>
          /\ tick_cmds = Sweep(search_idx - 1)
          /\ tick_reads = search_idx
    /\ exit_reason = "lost" =>
          LET K == Len(search_pattern)
          IN  /\ pc = "done"
              /\ K = (IF prog = "Perfect" THEN 6 ELSE 5)
              /\ tick_reads = K + 1
              /\ Len(tick_cmds) > K
              /\ SubSeq(tick_cmds, 1, K) = Sweep(K)
              /\ \A i \in (K + 1)..Len(tick_cmds) : tick_cmds[i] = Stop
              /\ last_cmd = Stop

SearchTermination_Witness ==
    /\ prog = "Perfect"
    /\ exit_reason = "lost"
    /\ Len(search_pattern) = 6
    /\ tick_cmds = Sweep(6) \o <<Stop, Stop>>

\* C6: a tick enters Search exactly when it is the 6th tick in a row (since
\* the count last restarted) that read above whiteThreshold + 5, and a tick
\* that reads at most whiteThreshold + 5 leaves the loss counter at 0.
LineLossTrigger ==
    [][(pc = "loop" /\ pc' \in {"loop", "search"}) =>
        /\ (pc' = "search") <=> (lost_streak' = 6)
        /\ lost_streak' <= 6
        /\ (S(sensor_value') <= white_threshold + S(5)) => lost_line_count' = 0
      ]_vars

LineLossTrigger_Witness ==
    /\ pc = "search"
    /\ search_idx = 1
    /\ lost_streak = 6
    /\ lost_line_count = 6

\* C7: when the control loop has ended by the stop button or by a failed
\* search, the run is over, stop is the last actuator command, and nothing
\* further can happen.
StopOnExit ==
    exit_reason \in {"button", "lost"} =>
        /\ pc = "done"
        /\ last_cmd = Stop
        /\ tick_cmds # <<>>
        /\ tick_cmds[Len(tick_cmds)] = Stop
        /\ ~ENABLED Next

\* the button stops a robot that was driving
StopOnExit_Witness ==
    /\ exit_reason = "button"
    /\ sensor_value # NoSample
    /\ tick_cmds = <<Stop>>

\* C8: a tick whose opening poll finds the stop button pressed ends the
\* loop without a sensor read, with no command but the final stop, and
\* with integral, lastError, errorHistory, linePosition and lostLineCount
\* as the previous tick left them.
StopSignalCheck ==
    [][(pc = "loop" /\ exit_reason' = "button") =>
        /\ pc' = "done"
        /\ tick_reads' = 0
        /\ sensor_value' = sensor_value
        /\ tick_cmds' = <<Stop>>
        /\ UNCHANGED <<integral, last_error, error_history, line_position,
                       lost_line_count>>
      ]_vars

\* the button pressed with regulator state and a running loss count
StopSignalCheck_Witness ==
    /\ exit_reason = "button"
    /\ tick_reads = 0
    /\ updates > 0
    /\ last_error # 0
    /\ lost_line_count > 0

\* C10 as stated, in its weakest reading and for runs calibrated with
\* blackSample < whiteSample: a run that a raising collaborator call ends
\* never ends with a drive or pivot turn as its last actuator command.
StopOnFault ==
    (exit_reason = "fault" /\ black_value < white_value)
        => last_cmd.op \notin {"drive", "turn"}

\* a step that ran the regulator once: an update of the harness, or a tick
\* of the loop that took the PID path
RegulatorUpdate == pid_called' /\ updates' = updates + 1

SteadyState ==
    (black_value = 10 /\ white_value = 90 /\ on_target)
        => /\ target_value = S(50)
           /\ integral = 0
           /\ last_error = 0
           /\ pc # "search"
           /\ sensor_value # NoSample
                => /\ sensor_value = 50
                   /\ pid_called
                   /\ turn_rate = 0
                   /\ pc = "loop"
                        => tick_cmds = <<Drive(base_speed * SpeedScale, 0)>>

\* three ticks in a row read 50 after calibrating on 10 and 90
SteadyState_Witness ==
    /\ black_value = 10 /\ white_value = 90 /\ on_target
    /\ pc = "loop" /\ updates = 3 /\ sensor_value = 50
    /\ last_cmd = Drive(base_speed * SpeedScale, 0)

\* a and b are non-zero and of opposite signs
OppositeSigns(a, b) == (a < 0 /\ b > 0) \/ (a > 0 /\ b < 0)

\* every adjacent pair of h has strictly opposite signs
Alternating(h) == \A i \in 1..(Len(h) - 1) : OppositeSigns(h[i], h[i + 1])

IntegralResetOnSharp ==
    [][(TickDone /\ ~pid_called' /\ white_value - black_value > 2 * margin)
          => integral' = 0]_vars

\* a step of the sweep: one pivot turn and its sample
SweepStep == pc = "search" /\ tick_reads' = tick_reads + 1

\* C15: a sweep step whose sample is below the target (the first such
\* sample, the sweep being still in progress) ends the sweep with success:
\* no later offset is turned, search_line stores line_position -1 for a
\* positive offset and +1 for a negative one, the loop goes on (the tick
\* ends with a drive command) and lost_line_count is 0 at the next tick;
\* a step whose sample is not below the target is no success.
SearchSuccess ==
    [][SweepStep =>
        IF S(reflection') < target_value
        THEN /\ pc' = "loop"
             /\ exit_reason' = "none"
             /\ lost_line_count' = 0
             /\ tick_cmds' = Append(Sweep(search_idx), last_cmd')
             /\ last_cmd'.op = "drive"
             /\ prog = "Perfect" =>
                    search_position' = IF search_pattern[search_idx] > 0
                                       THEN -1 ELSE 1
        ELSE pc' # "loop"
    ]_vars

\* a search has succeeded at its second offset (+60), after a first sample
\* that was not below the target
SearchSuccess_Witness ==
    /\ prog = "Perfect" /\ pc = "loop" /\ black_value < white_value
    /\ tick_reads = 3
    /\ S(reflection) < target_value
    /\ search_position = -1
    /\ lost_line_count = 0

\* C16: while Perfect_Program searches, the sweep in use is the one chosen
\* from line_position as it was on entry (the search leaves it alone until
\* it succeeds): 30, -60, 90, -120, 150, -180 for left (-1), the mirrored
\* sequence for right (+1) or center (0); the pivots commanded so far are
\* the offsets themselves, in order, each turned from where the previous
\* one ended.
SweepSelection ==
    (pc = "search" /\ prog = "Perfect") =>
        /\ line_position \in {-1, 0, 1}
        /\ line_position = -1 =>
               search_pattern = <<30, -60, 90, -120, 150, -180>>
        /\ line_position \in {0, 1} =>
               search_pattern = <<-30, 60, -90, 120, -150, 180>>
        /\ Len(tick_cmds) = search_idx - 1
        /\ \A i \in 1..(search_idx - 1) :
               tick_cmds[i] = Turn(search_pattern[i])

\* a search entered with the line last seen on the left has turned +30 and
\* -60 and is about to turn +90
SweepSelection_Witness ==
    /\ pc = "search" /\ prog = "Perfect"
    /\ white_value - black_value > 2 * margin
    /\ line_position = -1
    /\ search_idx = 3
    /\ tick_cmds = <<Turn(30), Turn(-60)>>

\* C17 as stated, for profiles from samples more than 10 apart, black
\* below white: whenever Perfect_Program is searching, line_position is +1
\* and the sweep is the mirrored one starting at -30.
SearchEntersRight_Always ==
    (pc = "search" /\ prog = "Perfect" /\ white_value - black_value > 2 * margin)
        => /\ line_position = 1
           /\ search_pattern = <<-30, 60, -90, 120, -150, 180>>

\* C17: when the thresholds are at least 5 apart (a lost reading, above
\* white_threshold + 5, is then not below black_threshold + 10), whenever
\* Perfect_Program is searching line_position is +1 and the sweep is the
\* mirrored one starting at -30.
SearchEntersRight ==
    (pc = "search" /\ prog = "Perfect"
        /\ white_threshold - black_threshold >= S(5))
        => /\ line_position = 1
           /\ search_pattern = <<-30, 60, -90, 120, -150, 180>>

\* a search entered with thresholds 5 apart, two pivots of the mirrored
\* sweep made
SearchEntersRight_Witness ==
    /\ pc = "search" /\ prog = "Perfect"
    /\ white_threshold - black_threshold = S(5)
    /\ line_position = 1
    /\ tick_cmds = <<Turn(-30), Turn(60)>>

\* C18: the drive command that ends a tick, and the line_position it
\* leaves, are those the steering computes from the latest sample taken in
\* the tick: the sample that reacquired the line when the tick searched,
\* the reading taken at the start of the tick otherwise.  Stated for
\* profiles from samples more than 10 apart, black below white.
DriveFromLatestSample ==
    [][(TickDone /\ white_value - black_value > 2 * margin) =>
        LET latest == IF reflection' # NoSample THEN reflection'
                      ELSE sensor_value'
            integ  == IF pc = "search" /\ prog = "Level4" THEN 0 ELSE integral
            r      == ProgSteer(latest, integ)
        IN  /\ last_cmd' = r.cmd
            /\ prog = "Perfect" => line_position' = r.line_position
    ]_vars

\* C19: lost_line_count is 0 at the end of every tick whose reading is at
\* most white_threshold + 5 and of every tick in which the search
\* succeeded; at every tick boundary of the running loop it lies in 0..5.
LossCounterBound ==
    /\ [](pc = "loop" => (0 <= lost_line_count /\ lost_line_count <= 5))
    /\ [][(TickDone /\ (S(sensor_value') <= white_threshold + S(5)
                          \/ pc = "search"))
            => lost_line_count' = 0]_vars

\* a tick that read a lost reading with the counter at 5, searched and
\* found the line, ends with the counter at 0
LossCounterBound_Witness ==
    /\ pc = "loop" /\ black_value < white_value
    /\ S(sensor_value) > white_threshold + S(5)
    /\ reflection # NoSample
    /\ lost_line_count = 0

\* C20: after n regulator updates error_history holds exactly the last
\* min(n, 10) errors given to the regulator, oldest first, so never more
\* than 10; a tick that bypasses the regulator leaves it unchanged.
ErrorHistoryWindow ==
    /\ [](prog = "Perfect" =>
            LET n == Len(error_log)
                k == IF n < 10 THEN n ELSE 10
            IN  /\ n = updates
                /\ Len(error_history) = k
                /\ \A i \in 1..k : error_history[i] = error_log[n - k + i])
    /\ [][(TickDone /\ ~pid_called') => error_history' = error_history]_vars

\* eleven updates made: the first error, different from the second, has
\* been evicted
ErrorHistoryWindow_Witness ==
    /\ prog = "Perfect" /\ updates = 11
    /\ Len(error_history) = 10
    /\ error_log[1] # error_log[2]
    /\ error_history[1] = error_log[2]
    /\ error_history[10] = error_log[11]

\* C21: after every tick of Perfect_Program that invoked the regulator the
\* drive command carries the turn rate of that tick and the speed
\* base_speed * (1 - 0.4 * |turn_rate| / max_turn_rate), which lies between
\* 0.6 * base_speed and base_speed and is base_speed exactly when the turn
\* rate is 0.  With speed = a / (25 TurnScale) and turn_rate = b / TurnScale
\* the equation, multiplied by 5 * max_turn_rate * TurnScale and divided by
\* 25, reads  a * max_turn_rate / 5
\*              = base_speed * (5 * max_turn_rate * TurnScale - 2 |b|).
SpeedScaling ==
    (prog = "Perfect" /\ pc = "loop" /\ pid_called) =>
        LET a == last_cmd.a
            b == last_cmd.b
        IN  /\ last_cmd.op = "drive"
            /\ b = turn_rate
            /\ a * (max_turn_rate \div 5)
                  = base_speed * (5 * max_turn_rate * TurnScale - 2 * Abs(b))
            /\ 10 * a >= 6 * base_speed * SpeedScale
            /\ a <= base_speed * SpeedScale
            /\ (a = base_speed * SpeedScale) <=> (b = 0)

\* a PID tick has commanded a non-zero turn rate at a reduced speed
SpeedScaling_Witness ==
    /\ prog = "Perfect" /\ pc = "loop" /\ pid_called
    /\ black_value < white_value
    /\ turn_rate # 0
    /\ last_cmd.b = turn_rate
    /\ last_cmd.a < base_speed * SpeedScale

\* C22: the black sample is read only after the button has been found not
\* pressed at a poll made since the white sample, so the polls of one
\* continuous press never yield both samples (nor then stop the control
\* loop at its first poll).
SeparateConfirmations == Calibrated => ~held
====
